---- MODULE Spec2Model ----
(***************************************************************************)
(* Model of the ffmpeg video encoder: the SQS worker (src/src/worker.ts),  *)
(* its configuration (src/src/config.ts) and the directory-scanning worker *)
(* (src/unnamed/part_002).                                                 *)
(***************************************************************************)
EXTENDS Integers, Sequences, FiniteSets, Bags, TLC

\* ---------------------------------------------------------------- bounds
MaxJobs == 2
MaxReceives == 2
MaxConcurrencyEnv == 2
MaxFiles == 1
ScanWorkers == 2
MaxCallers == 4
MaxWakes == 2
MaxUploads == 3
MaxOrphanCopies == 2

Jobs == 1..MaxJobs

\* ---------------------------------------------------------------- config.ts
NodeEnvs == {"production", "development", "other"}
ManifestModes == {"both", "dash", "hls", "none"}

DEFAULT_LADDER ==
  << [name |-> "240p", enabled |-> TRUE],
     [name |-> "720p", enabled |-> TRUE],
     [name |-> "1080p", enabled |-> FALSE] >>

DefaultMaxConcurrentEncodings == 2
ProductionMaxConcurrentEncodings == 4
DevelopmentMaxConcurrentEncodings == 4

RECURSIVE FilterEnabled(_)
FilterEnabled(l) ==
  IF l = << >> THEN << >>
  ELSE IF Head(l).enabled THEN << Head(l) >> \o FilterEnabled(Tail(l))
       ELSE FilterEnabled(Tail(l))

getLadder(env) ==
  IF env = "production"
  THEN [i \in 1..Len(DEFAULT_LADDER) |->
          [name |-> DEFAULT_LADDER[i].name, enabled |-> TRUE]]
  ELSE FilterEnabled(DEFAULT_LADDER)

\* MAX_CONCURRENCY is modelled by its parseInt value; 0 stands for an absent,
\* empty or non-numeric variable (NaN) and for a literal zero.
getConfigMaxConcurrentEncodings(env, maxConcurrency) ==
  LET envMaxConcurrency == IF maxConcurrency > 0 THEN maxConcurrency ELSE 0
  IN IF env = "production"
     THEN IF envMaxConcurrency # 0 THEN envMaxConcurrency
          ELSE ProductionMaxConcurrentEncodings
     ELSE IF env = "development"
     THEN IF envMaxConcurrency # 0 THEN envMaxConcurrency
          ELSE DevelopmentMaxConcurrentEncodings
     ELSE DefaultMaxConcurrentEncodings

\* USE_GPU is "unset" when the variable is absent, "true" when it matches
\* /^(1|true|yes)$/i and "false" for any other string.
UseGpuEnvs == {"unset", "true", "false"}

getConfigUseGPU(env, useGpu) ==
  IF env = "production"
  THEN IF useGpu = "unset" THEN TRUE ELSE useGpu = "true"
  ELSE IF env = "development"
  THEN IF useGpu = "unset" THEN FALSE ELSE useGpu = "true"
  ELSE TRUE

\* ---------------------------------------------------------------- worker.ts
LADDER(env) == FilterEnabled(getLadder(env))

RungNames == {DEFAULT_LADDER[i].name : i \in 1..Len(DEFAULT_LADDER)}
Rungs(env) == {LADDER(env)[i].name : i \in 1..Len(LADDER(env))}
Items == {"thumbnail", "audio"} \cup RungNames

outFile(i) ==
  IF i = "thumbnail" THEN "thumbnail.jpg"
  ELSE IF i = "audio" THEN "audio.mp3"
  ELSE IF i = "240p" THEN "240p.mp4"
  ELSE IF i = "720p" THEN "720p.mp4"
  ELSE "1080p.mp4"

tempInputPath == "_input.mp4"

\* class Semaphore
SemaphoreNew(n) == [permits |-> n, waitQueue |-> << >>]

\* SemaphoreAcquire without the test of the free count.
SemaphoreAcquireUnchecked(s, caller) ==
  [permits |-> s.permits - 1, waitQueue |-> s.waitQueue]

SemaphoreAcquire(s, caller) ==
  IF s.permits > 0
  THEN [permits |-> s.permits - 1, waitQueue |-> s.waitQueue]
  ELSE [permits |-> s.permits, waitQueue |-> Append(s.waitQueue, caller)]

\* SemaphoreRelease that returns the permit to the free count and resumes
\* nobody.
SemaphoreReleaseNoWake(s) ==
  [permits |-> s.permits + 1, waitQueue |-> s.waitQueue]

\* SemaphoreRelease that resumes the first waiter and also increments the
\* free count.
SemaphoreReleaseAlsoIncrements(s) ==
  IF Len(s.waitQueue) > 0
  THEN [permits |-> s.permits + 1, waitQueue |-> Tail(s.waitQueue)]
  ELSE [permits |-> s.permits + 1, waitQueue |-> s.waitQueue]

\* SemaphoreRelease with pop() in place of shift().
SemaphoreReleaseLast(s) ==
  IF Len(s.waitQueue) > 0
  THEN [permits |-> s.permits,
        waitQueue |-> SubSeq(s.waitQueue, 1, Len(s.waitQueue) - 1)]
  ELSE [permits |-> s.permits + 1, waitQueue |-> s.waitQueue]

SemaphoreRelease(s) ==
  IF Len(s.waitQueue) > 0
  THEN [permits |-> s.permits, waitQueue |-> Tail(s.waitQueue)]
  ELSE [permits |-> s.permits + 1, waitQueue |-> s.waitQueue]

VARIABLES
  nodeEnv,        \* process.env.NODE_ENV
  maxConcurrency, \* parseInt(process.env.MAX_CONCURRENCY), 0 when not positive
  manifests,      \* process.env.MANIFESTS, lower-cased
  useGpuEnv,      \* process.env.USE_GPU
  sem,            \* encodingSemaphore
  msg,            \* SQS queue: per message visible / inflight / deleted
  hasAudio,       \* message.hasAudio (odd messages ask for the audio track)
  userId,         \* message.userId is present (a UUID string)
  immutable,      \* workspace files that, once written, cannot be removed
  received,       \* ReceiveMessage calls that returned a message
  pc,             \* position of the control thread in pollMessages/processVideo
  cur,            \* message being handled (0: none)
  item,           \* fan-out items of the current run
  inputFile,      \* workDir/_input.mp4: absent / partial / complete
  workDir,        \* files in the workspace (tempDir/output) of the current run
  tempDirExists,  \* per job: whether tempDir (uploads/<uploadId>) exists
  toUpload,       \* files uploadDirectory has still to put
  runPuts,        \* objects put to the object store by the current run
  mp4boxCalls,    \* MP4Box invocations of the current run, in order
  err,            \* error thrown by the current run ("none": none)
  done,           \* steps of the current run that completed
  runSounds,      \* metadata records created by the current run
  ffmpegCalls,    \* per item: ffmpeg processes started by the current run
  codecFail,      \* rungs whose ffmpeg could not use the hardware codec
  reported,       \* (name, reason) pairs logged for the failed encodings
  noInput,        \* items whose ffmpeg was started when _input.mp4 was gone
  kept,           \* per job: what is in its workspace between its runs
  sounds,         \* metadata records created, per job
  \* --- the directory-scanning worker (part_002)
  uploads,        \* ids of the .mp4 files in UPLOAD_DIR
  public,         \* per id: the files in OUTPUT_DIR/<id>
  spc,            \* per scanning process: its position in loop/processUploadsOnce
  sfiles,         \* per scanning process: files of the scan still to visit
  sfile,          \* per scanning process: the file being processed (0: none)
  enc,            \* per scanning process and rung: the run's encoder process and its promise
  orphans,        \* bag of the encoders still running after their run was abandoned
  completed,      \* per id: some run finished the whole pipeline
  \* --- callers of a Semaphore (the class on its own)
  sstate,         \* per caller: idle / waiting (suspended in acquire) / holding
  ticket,         \* per caller: the rank by age of its acquire() call (0: none)
  clock,          \* acquire() calls not yet followed by their release()
  wakes,          \* release() calls that resumed a caller, counted to MaxWakes
  \* --- the POST /upload handler of server.ts
  up              \* per uploaded file: position, source object, message, result

vars == << nodeEnv, maxConcurrency, manifests, useGpuEnv, sem, msg, hasAudio,
           userId, immutable,
           received, pc, cur, item, inputFile, workDir, tempDirExists, toUpload,
           runPuts, mp4boxCalls, err, done, runSounds, ffmpegCalls, codecFail,
           reported, noInput, kept, sounds,
           uploads, public, spc, sfiles, sfile, enc, orphans, completed,
           sstate, ticket, clock, wakes, up >>

callerVars == << sstate, ticket, clock, wakes >>

scanVars == << uploads, public, spc, sfiles, sfile, enc, orphans, completed >>

\* What no step of worker.ts writes: the environment, the message bodies and
\* the state of the directory-scanning worker.
constVars == << nodeEnv, maxConcurrency, manifests, useGpuEnv, hasAudio,
               userId, immutable,
               scanVars, callerVars, up >>
runVars == << item, inputFile, workDir, tempDirExists, toUpload, runPuts,
              mp4boxCalls, err, done, runSounds, ffmpegCalls, codecFail,
              reported, noInput, kept >>

\* The workspace of a job of which no run has left anything.
NothingKept == [files |-> {}, inputFile |-> "absent"]

\* The workspace files the file system refuses to remove or replace once they
\* are written (EPERM, as for a file with the immutable attribute): none, or
\* one of the input copy, a rendition and the thumbnail.
ImmutableSets == {{}, {"_input.mp4"}, {"240p.mp4"}, {"thumbnail.jpg"}}

CONFIG_maxConcurrentEncodings ==
  getConfigMaxConcurrentEncodings(nodeEnv, maxConcurrency)

CONFIG_useGPU == getConfigUseGPU(nodeEnv, useGpuEnv)

\* The settings of USE_GPU, MAX_CONCURRENCY and MANIFESTS the worker is started
\* with: each variable takes every one of its values while the other two are
\* left unset (MANIFESTS unset is "both"). The messages without a userId and
\* the files that cannot be removed are met with all three unset, the latter
\* with NODE_ENV unset too (development) and one message in the queue.
Environments ==
  ({"unset"} \X {0} \X ManifestModes)
    \cup ({"unset"} \X (0..MaxConcurrencyEnv) \X {"both"})
    \cup (UseGpuEnvs \X {0} \X {"both"})

\* The descriptor POST /upload builds: {s3Key, filename, uploadId, timestamp,
\* hasAudio: false}; neither userId nor postId is set.
UploadEndpointMessage == [hasAudio |-> FALSE, userId |-> FALSE]

\* The queued messages: the odd ones come from a producer that fills every
\* field of VideoProcessingMessage, the even ones carry a userId or not.
UserIds == {u \in [Jobs -> BOOLEAN] : \A j \in Jobs : (j % 2 = 1) => u[j]}

Callers == 1..MaxCallers

\* No caller but processVideo uses the semaphore.
\* The files of one POST /upload request (multer: upload.array("video")).
UpFiles == 1..MaxUploads

\* No upload request is being handled.
UploadOff ==
  up = [f \in UpFiles |-> [pc |-> "off", put |-> FALSE, sent |-> FALSE,
                            status |-> "none"]]

CallersOff ==
  /\ sstate = [c \in Callers |-> "idle"]
  /\ ticket = [c \in Callers |-> 0]
  /\ clock = 0
  /\ wakes = 0

\* ---------------------------------------------------------------- part_002
Files == 1..MaxFiles
Procs == 1..ScanWorkers

\* const LADDER of the scanning worker: both rungs, no enabled flag.
ScanLADDER == << "240p", "720p" >>
ScanRungs == {ScanLADDER[i] : i \in 1..Len(ScanLADDER)}
ScanOutputs == {outFile(r) : r \in ScanRungs}

ScanOff ==
  /\ uploads = {}
  /\ public = [f \in Files |-> {}]
  /\ spc = [w \in Procs |-> "off"]
  /\ sfiles = [w \in Procs |-> {}]
  /\ sfile = [w \in Procs |-> 0]
  /\ enc = [w \in Procs |-> [r \in ScanRungs |-> "idle"]]
  /\ orphans = EmptyBag
  /\ completed = [f \in Files |-> FALSE]

Init ==
  /\ ScanOff
  /\ CallersOff
  /\ UploadOff
  /\ nodeEnv \in NodeEnvs
  /\ \E e \in Environments :
       /\ useGpuEnv = e[1]
       /\ maxConcurrency = e[2]
       /\ manifests = e[3]
       /\ IF e = << "unset", 0, "both" >>
          THEN \/ userId \in UserIds /\ immutable = {}
               \/ /\ userId = [j \in Jobs |-> TRUE]
                  /\ nodeEnv = "development"
                  /\ immutable \in ImmutableSets
          ELSE userId = [j \in Jobs |-> TRUE] /\ immutable = {}
  /\ sem = SemaphoreNew(getConfigMaxConcurrentEncodings(nodeEnv, maxConcurrency))
  /\ msg = [j \in Jobs |-> IF immutable = {} \/ j = MaxJobs THEN "visible"
                                                            ELSE "deleted"]
  /\ hasAudio = [j \in Jobs |-> j % 2 = 1]
  /\ received = 0
  /\ pc = "poll"
  /\ cur = 0
  /\ item = [i \in Items |-> "idle"]
  /\ inputFile = "absent"
  /\ workDir = {}
  /\ tempDirExists = [j \in Jobs |-> FALSE]
  /\ toUpload = {}
  /\ runPuts = {}
  /\ mp4boxCalls = << >>
  /\ err = "none"
  /\ done = {}
  /\ runSounds = 0
  /\ ffmpegCalls = [i \in Items |-> 0]
  /\ codecFail = {}
  /\ reported = {}
  /\ noInput = {}
  /\ kept = [j \in Jobs |-> NothingKept]
  /\ sounds = [j \in Jobs |-> 0]

\* ---------------------------------------------------------------- pollMessages
\* ReceiveMessage returned one message; processVideo(message) is called and
\* runs up to its first await, encodingSemaphore.acquire(). The workspace of
\* the message, uploads/<uploadId>/output, holds what an earlier run of the
\* same message could not remove.
PmReceive(j) ==
  /\ pc = "poll"
  /\ msg[j] = "visible"
  /\ received < MaxReceives
  /\ msg' = [msg EXCEPT ![j] = "inflight"]
  /\ received' = received + 1
  /\ cur' = j
  /\ pc' = "pv_acquire"
  /\ item' = [i \in Items |-> "idle"]
  /\ inputFile' = kept[j].inputFile
  /\ workDir' = kept[j].files
  /\ toUpload' = {}
  /\ runPuts' = {}
  /\ mp4boxCalls' = << >>
  /\ err' = "none"
  /\ done' = {}
  /\ runSounds' = 0
  /\ ffmpegCalls' = [i \in Items |-> 0]
  /\ codecFail' = {}
  /\ reported' = {}
  /\ noInput' = {}
  /\ UNCHANGED << constVars, sem, tempDirExists, kept, sounds >>

\* ReceiveMessage threw: log, wait 5 s, poll again.
PmReceiveError ==
  /\ pc = "poll"
  /\ pc' = "backoff"
  /\ UNCHANGED << constVars, sem, msg, received, cur, runVars, sounds >>

PmBackoff ==
  /\ pc = "backoff"
  /\ pc' = "poll"
  /\ UNCHANGED << constVars, sem, msg, received, cur, runVars, sounds >>

\* The locals of a finished processVideo call are dropped.
RunReset ==
  /\ cur' = 0
  /\ item' = [i \in Items |-> "idle"]
  /\ inputFile' = "absent"
  /\ workDir' = {}
  /\ UNCHANGED << tempDirExists, kept >>
  /\ noInput' = {}
  /\ toUpload' = {}
  /\ runPuts' = {}
  /\ mp4boxCalls' = << >>
  /\ err' = "none"
  /\ done' = {}
  /\ runSounds' = 0
  /\ ffmpegCalls' = [i \in Items |-> 0]
  /\ codecFail' = {}
  /\ reported' = {}

\* DeleteMessage after processVideo returned normally.
PmDelete ==
  /\ pc = "pm_delete"
  /\ \/ /\ msg' = [msg EXCEPT ![cur] = "deleted"]
        /\ pc' = "poll"
        /\ RunReset
     \/ /\ pc' = "pm_catch"
        /\ UNCHANGED << msg, cur, runVars >>
  /\ UNCHANGED << constVars, sem, received, sounds >>

\* catch (err) of the per-message try: the message is not deleted and
\* returns to the queue after the visibility timeout.
PmCatch ==
  /\ pc = "pm_catch"
  /\ msg' = [msg EXCEPT ![cur] = "visible"]
  /\ pc' = "poll"
  /\ RunReset
  /\ UNCHANGED << constVars, sem, received, sounds >>

\* ---------------------------------------------------------------- processVideo
Throw(e) ==
  /\ pc' = "pv_finally"
  /\ err' = e

\* await encodingSemaphore.acquire(): granted at once when a permit is free,
\* else the caller is queued and suspended.
PvAcquire ==
  /\ pc = "pv_acquire"
  /\ sem' = SemaphoreAcquire(sem, cur)
  /\ pc' = IF sem.permits > 0 THEN "pv_mkdir" ELSE "pv_wait"
  /\ UNCHANGED << constVars, msg, received, cur, runVars, sounds >>

\* fs.mkdirSync(workDir, {recursive: true}), before the try block.
PvMkdir ==
  /\ pc = "pv_mkdir"
  /\ pc' = "pv_get"
  /\ tempDirExists' = [tempDirExists EXCEPT ![cur] = TRUE]
  /\ UNCHANGED << constVars, sem, msg, received, cur, item, inputFile, workDir,
                  toUpload, runPuts, mp4boxCalls, err, done, runSounds, sounds,
                  ffmpegCalls, codecFail, reported >>
  /\ UNCHANGED << noInput, kept >>

\* mkdirSync (or path.join) throws: the exception leaves processVideo from
\* outside the try block, so neither catch nor finally runs.
PvMkdirFail ==
  /\ pc = "pv_mkdir"
  /\ pc' = "pm_catch"
  /\ err' = "mkdir failed"
  /\ UNCHANGED << constVars, sem, msg, received, cur, item, inputFile, workDir,
                  tempDirExists, toUpload, runPuts, mp4boxCalls, done, sounds, runSounds,
                  ffmpegCalls, codecFail, reported >>
  /\ UNCHANGED << noInput, kept >>

\* Launched with the audio extraction started whatever message.hasAudio says.
LaunchedAlwaysAudio(j) ==
  [i \in Items |->
     IF i \in {"thumbnail", "audio"} THEN "writing"
     ELSE IF i \in Rungs(nodeEnv) THEN "writing"
     ELSE "idle"]

\* The item list handed to Promise.allSettled: every async function is called,
\* and runs up to its first await (the pipe into _input.mp4), before
\* allSettled is awaited; a null entry settles as fulfilled.
Launched(j) ==
  [i \in Items |->
     IF i = "thumbnail" THEN "writing"
     ELSE IF i = "audio" THEN (IF hasAudio[j] THEN "writing" ELSE "null")
     ELSE IF i \in Rungs(nodeEnv) THEN "writing"
     ELSE "idle"]

\* A file an earlier run of the message left in the workspace and that cannot
\* be replaced: opening it for writing fails.
Protected(f) == cur # 0 /\ f \in kept[cur].files \cap immutable

\* GetObject succeeded; the fan-out is launched: every item has called
\* fs.createWriteStream(_input.mp4), which truncates the file.
PvGet ==
  /\ pc = "pv_get"
  /\ pc' = "pv_fanout"
  /\ item' = Launched(cur)
  /\ inputFile' = IF Protected(tempInputPath) THEN inputFile ELSE "partial"
  /\ workDir' = workDir \cup {tempInputPath}
  /\ done' = done \cup {"get"}
  /\ UNCHANGED << constVars, sem, msg, received, cur, tempDirExists, toUpload,
                  runPuts, mp4boxCalls, err, sounds, runSounds,
                  ffmpegCalls, codecFail, reported, noInput, kept >>

PvGetFail ==
  /\ pc = "pv_get"
  /\ Throw("GetObject failed")
  /\ UNCHANGED << constVars, sem, msg, received, cur, item, inputFile, workDir,
                  tempDirExists, toUpload, runPuts, mp4boxCalls, done, sounds, runSounds,
                  ffmpegCalls, codecFail, reported >>
  /\ UNCHANGED << noInput, kept >>

\* The item's write of _input.mp4 finished; its ffmpeg process is spawned on
\* that path and the promise of the item stays pending. A process started
\* after a sibling unlinked the input cannot open it: its "error" event comes
\* in a later turn of the event loop.
ItemSpawn(i) ==
  /\ pc = "pv_fanout"
  /\ item[i] = "writing"
  /\ ~Protected(tempInputPath)
  /\ item' = [item EXCEPT ![i] = "running"]
  /\ ffmpegCalls' = [ffmpegCalls EXCEPT ![i] = @ + 1]
  /\ IF inputFile = "absent"
     THEN /\ noInput' = noInput \cup {i}
          /\ UNCHANGED inputFile
     ELSE /\ inputFile' = "complete"
          /\ UNCHANGED noInput
  /\ UNCHANGED << constVars, sem, msg, received, pc, cur, workDir, tempDirExists,
                  toUpload, runPuts, mp4boxCalls, err, done, runSounds, sounds,
                  codecFail, reported, kept >>

\* The write stream emitted "error".
ItemWriteError(i) ==
  /\ pc = "pv_fanout"
  /\ item[i] = "writing"
  /\ item' = [item EXCEPT ![i] = "rejected"]
  /\ UNCHANGED << constVars, sem, msg, received, pc, cur, inputFile, workDir,
                  tempDirExists, toUpload, runPuts, mp4boxCalls, err, done,
                  runSounds, sounds,
                  ffmpegCalls, codecFail, reported >>
  /\ UNCHANGED << noInput, kept >>

\* ffmpeg "end": try { unlinkSync(_input.mp4) } catch {} and resolve(outFile).
\* The unlink removes the file, or throws and leaves it where it is; a throw
\* because a sibling removed the file before changes nothing. ffmpeg does
\* not end well without its input or when it cannot write its output.
ItemEnd(i) ==
  /\ pc = "pv_fanout"
  /\ item[i] = "running"
  /\ i \notin noInput
  /\ ~Protected(outFile(i))
  /\ item' = [item EXCEPT ![i] = "fulfilled"]
  /\ IF tempInputPath \in immutable /\ inputFile # "absent"
     THEN /\ workDir' = workDir \cup {outFile(i)}
          /\ UNCHANGED inputFile
     ELSE /\ workDir' = (workDir \ {tempInputPath}) \cup {outFile(i)}
          /\ inputFile' = "absent"
  /\ UNCHANGED << constVars, sem, msg, received, pc, cur, tempDirExists,
                  toUpload, runPuts, mp4boxCalls, err, done, runSounds, sounds,
                  ffmpegCalls, codecFail, reported, noInput, kept >>

\* ffmpeg "error": reject(err).
ItemError(i) ==
  /\ pc = "pv_fanout"
  /\ item[i] = "running"
  /\ item' = [item EXCEPT ![i] = "rejected"]
  /\ UNCHANGED << constVars, sem, msg, received, pc, cur, inputFile, workDir,
                  tempDirExists, toUpload, runPuts, mp4boxCalls, err, done,
                  runSounds, sounds,
                  ffmpegCalls, codecFail, reported >>
  /\ UNCHANGED << noInput, kept >>

\* The codec of the command built by encodeResolution: videoCodec("libx264"),
\* replaced by videoCodec("h264_nvenc") when CONFIG.useGPU; videoCodec()
\* only records the option and never throws, so neither catch block runs.
videoCodec(i) == IF CONFIG_useGPU THEN "h264_nvenc" ELSE "libx264"

\* ffmpeg "error" of a rung encode because h264_nvenc cannot be used on this
\* machine: reject(err).
ItemCodecError(i) ==
  /\ pc = "pv_fanout"
  /\ i \in Rungs(nodeEnv)
  /\ item[i] = "running"
  /\ i \notin noInput
  /\ videoCodec(i) = "h264_nvenc"
  /\ item' = [item EXCEPT ![i] = "rejected"]
  /\ codecFail' = codecFail \cup {i}
  /\ UNCHANGED << constVars, sem, msg, received, pc, cur, inputFile, workDir,
                  tempDirExists, toUpload, runPuts, mp4boxCalls, err, done,
                  runSounds, sounds, ffmpegCalls, reported >>
  /\ UNCHANGED << noInput, kept >>

Settled(i) == item[i] \in {"fulfilled", "rejected", "null", "idle"}

failedEncodings == {r \in Rungs(nodeEnv) : item[r] = "rejected"}

\* encodingResults.filter(rejected): the rejected results, in ladder order,
\* each named here by the rung it belongs to.
failedEncodingResults ==
  SelectSeq([k \in 1..Len(LADDER(nodeEnv)) |-> LADDER(nodeEnv)[k].name],
            LAMBDA r : item[r] = "rejected")

\* result.reason of a rejected item: the error of that item's write stream or
\* of its ffmpeg process.
reason(i) ==
  << i, IF i \in codecFail THEN "codec"
        ELSE IF ffmpegCalls[i] = 0 THEN "write" ELSE "ffmpeg" >>

\* failedEncodings.forEach((result, index) => console.error(
\*   `${LADDER[index].name}: ${result.reason}`)): index is the position in
\* the filtered array.
loggedFailures ==
  {<< LADDER(nodeEnv)[k].name, reason(failedEncodingResults[k]) >> :
     k \in 1..Len(failedEncodingResults)}

\* PvSettled without the check of the rung encodes: the rungs that did succeed
\* are packaged.
PvSettledPackagesPartial ==
  /\ pc = "pv_fanout"
  /\ \A i \in Items : Settled(i)
  /\ IF item["thumbnail"] = "rejected"
     THEN Throw("Thumbnail generation failed") /\ UNCHANGED done
     ELSE IF item["audio"] = "rejected"
     THEN Throw("Audio extraction failed") /\ UNCHANGED done
     ELSE /\ pc' = "pv_dash"
          /\ done' = done \cup {"fanout"}
          /\ UNCHANGED err
  /\ UNCHANGED << constVars, sem, msg, received, cur, item, inputFile, workDir,
                  tempDirExists, toUpload, runPuts, mp4boxCalls, runSounds,
                  sounds,
                  ffmpegCalls, codecFail, reported >>
  /\ UNCHANGED << noInput, kept >>

\* Promise.allSettled resolved; the results are checked in source order.
PvSettled ==
  /\ pc = "pv_fanout"
  /\ \A i \in Items : Settled(i)
  /\ IF item["thumbnail"] = "rejected"
     THEN Throw("Thumbnail generation failed") /\ UNCHANGED done
     ELSE IF item["audio"] = "rejected"
     THEN Throw("Audio extraction failed") /\ UNCHANGED done
     ELSE IF failedEncodings # {}
     THEN Throw("Some encodings failed") /\ UNCHANGED done
     ELSE /\ pc' = "pv_dash"
          /\ done' = done \cup {"fanout"}
          /\ UNCHANGED err
  /\ reported' =
       IF /\ item["thumbnail"] # "rejected"
          /\ item["audio"] # "rejected"
          /\ failedEncodings # {}
       THEN loggedFailures
       ELSE reported
  /\ UNCHANGED << constVars, sem, msg, received, cur, item, inputFile, workDir,
                  tempDirExists, toUpload, runPuts, mp4boxCalls, sounds, runSounds,
                  ffmpegCalls, codecFail >>
  /\ UNCHANGED << noInput, kept >>

successfulOutputs == {outFile(r) : r \in {x \in Rungs(nodeEnv) : item[x] = "fulfilled"}}

\* streamRefs with the #video reference only.
streamRefsVideoOnly(outputs) == {<< f, k >> : f \in outputs, k \in {"video"}}

\* ---------------------------------------------------------------- generateCmafAndManifest
\* ...outputs.flatMap((f) => [`${f}#video`, `${f}#audio`])
streamRefs(outputs) == {<< f, k >> : f \in outputs, k \in {"video", "audio"}}

dashFiles == {"manifest.mpd", "dash.m4s"}
hlsFiles == {"manifest.m3u8", "hls.m4s"}

\* First block: MP4Box for manifest.mpd when MANIFESTS is both or dash.
PvDash ==
  /\ pc = "pv_dash"
  /\ IF manifests \in {"both", "dash"}
     THEN /\ mp4boxCalls' = Append(mp4boxCalls,
                [out |-> "manifest.mpd", refs |-> streamRefs(successfulOutputs)])
          /\ \/ /\ workDir' = workDir \cup dashFiles
                /\ pc' = "pv_hls"
                /\ UNCHANGED err
             \/ /\ Throw("MP4Box exited with code 1")
                /\ UNCHANGED workDir
     ELSE /\ pc' = "pv_hls"
          /\ UNCHANGED << mp4boxCalls, workDir, err >>
  /\ UNCHANGED << constVars, sem, msg, received, cur, item, inputFile,
                  tempDirExists, toUpload, runPuts, done, sounds, runSounds,
                  ffmpegCalls, codecFail, reported >>
  /\ UNCHANGED << noInput, kept >>

\* for (const f of outputs) try { fs.unlinkSync(f) } catch {}: the files that
\* are gone afterwards; the unlink of a file that cannot be removed throws.
unlinked(outputs) == outputs \ immutable

\* PvHls with the unlink of the intermediate MP4s in a finally block.
PvHlsCleansOnFailure ==
  /\ pc = "pv_hls"
  /\ IF manifests \in {"both", "hls"}
     THEN /\ mp4boxCalls' = Append(mp4boxCalls,
                [out |-> "manifest.m3u8", refs |-> streamRefs(successfulOutputs)])
          /\ \/ /\ workDir' = (workDir \cup hlsFiles) \ unlinked(successfulOutputs)
                /\ toUpload' = (workDir \cup hlsFiles) \ unlinked(successfulOutputs)
                /\ pc' = "pv_upload"
                /\ done' = done \cup {"package"}
                /\ UNCHANGED err
             \/ /\ Throw("MP4Box exited with code 1")
                /\ workDir' = workDir \ unlinked(successfulOutputs)
                /\ UNCHANGED << toUpload, done >>
     ELSE /\ workDir' = workDir \ unlinked(successfulOutputs)
          /\ toUpload' = workDir \ unlinked(successfulOutputs)
          /\ pc' = "pv_upload"
          /\ done' = done \cup {"package"}
          /\ UNCHANGED << mp4boxCalls, err >>
  /\ UNCHANGED << constVars, sem, msg, received, cur, item, inputFile,
                  tempDirExists, runPuts, sounds, runSounds,
                  ffmpegCalls, codecFail, reported, noInput, kept >>

\* Second block: MP4Box for manifest.m3u8 when MANIFESTS is both or hls; then
\* the intermediate MP4s are unlinked, errors ignored, and uploadDirectory
\* reads the directory.
PvHls ==
  /\ pc = "pv_hls"
  /\ IF manifests \in {"both", "hls"}
     THEN /\ mp4boxCalls' = Append(mp4boxCalls,
                [out |-> "manifest.m3u8", refs |-> streamRefs(successfulOutputs)])
          /\ \/ /\ workDir' = (workDir \cup hlsFiles) \ unlinked(successfulOutputs)
                /\ toUpload' = (workDir \cup hlsFiles) \ unlinked(successfulOutputs)
                /\ pc' = "pv_upload"
                /\ done' = done \cup {"package"}
                /\ UNCHANGED err
             \/ /\ Throw("MP4Box exited with code 1")
                /\ UNCHANGED << workDir, toUpload, done >>
     ELSE /\ workDir' = workDir \ unlinked(successfulOutputs)
          /\ toUpload' = workDir \ unlinked(successfulOutputs)
          /\ pc' = "pv_upload"
          /\ done' = done \cup {"package"}
          /\ UNCHANGED << mp4boxCalls, err >>
  /\ UNCHANGED << constVars, sem, msg, received, cur, item, inputFile,
                  tempDirExists, runPuts, sounds, runSounds,
                  ffmpegCalls, codecFail, reported, noInput, kept >>

\* ---------------------------------------------------------------- processVideo, continued
\* uploadDirectory: one PutObject per file of workDir, awaited in turn.
PvPut(f) ==
  /\ pc = "pv_upload"
  /\ f \in toUpload
  /\ runPuts' = runPuts \cup {f}
  /\ toUpload' = toUpload \ {f}
  /\ IF toUpload \ {f} = {}
     THEN pc' = "pv_thumbput" /\ done' = done \cup {"upload"}
     ELSE UNCHANGED << pc, done >>
  /\ UNCHANGED << constVars, sem, msg, received, cur, item, inputFile, workDir,
                  tempDirExists, mp4boxCalls, err, sounds, runSounds,
                  ffmpegCalls, codecFail, reported >>
  /\ UNCHANGED << noInput, kept >>

PvPutFail ==
  /\ pc = "pv_upload"
  /\ toUpload # {}
  /\ Throw("PutObject failed")
  /\ UNCHANGED << constVars, sem, msg, received, cur, item, inputFile, workDir,
                  tempDirExists, toUpload, runPuts, mp4boxCalls, done, sounds, runSounds,
                  ffmpegCalls, codecFail, reported >>
  /\ UNCHANGED << noInput, kept >>

\* PvThumbPut with the PutObject error caught and logged.
PvThumbPutCaught ==
  /\ pc = "pv_thumbput"
  /\ \/ /\ runPuts' = runPuts \cup {"thumbnail.jpg"}
        /\ done' = done \cup {"thumbput"}
     \/ UNCHANGED << runPuts, done >>
  /\ pc' = "pv_sound"
  /\ UNCHANGED << constVars, sem, msg, received, cur, item, inputFile, workDir,
                  tempDirExists, toUpload, mp4boxCalls, err, sounds, runSounds,
                  ffmpegCalls, codecFail, reported >>
  /\ UNCHANGED << noInput, kept >>

\* The explicit PutObject of the thumbnail under thumbnailKey.
PvThumbPut ==
  /\ pc = "pv_thumbput"
  /\ \/ /\ runPuts' = runPuts \cup {"thumbnail.jpg"}
        /\ pc' = "pv_sound"
        /\ done' = done \cup {"thumbput"}
        /\ UNCHANGED err
     \/ /\ Throw("PutObject failed")
        /\ UNCHANGED << runPuts, done >>
  /\ UNCHANGED << constVars, sem, msg, received, cur, item, inputFile, workDir,
                  tempDirExists, toUpload, mp4boxCalls, sounds, runSounds,
                  ffmpegCalls, codecFail, reported >>
  /\ UNCHANGED << noInput, kept >>

\* The object keys stored by createSound, as the names they have under the
\* run's output prefix: url: audioKey, thumbnail: thumbnailKey.
soundRecordKeys == {"audio.mp3", "thumbnail.jpg"}

\* types.Uuid.fromString(message.userId): throws unless the value is a string
\* of 36 characters; an absent field is undefined.
UuidFromString(j) == userId[j]

\* PvSound with a createSound that throws after its INSERT was applied.
PvSoundInsertThenThrow ==
  /\ pc = "pv_sound"
  /\ \/ /\ UuidFromString(cur)
        /\ sounds' = [sounds EXCEPT ![cur] = @ + 1]
        /\ runSounds' = runSounds + 1
        /\ \/ /\ pc' = "pv_finally"
              /\ done' = done \cup {"sound"}
              /\ UNCHANGED err
           \/ /\ Throw("createSound failed")
              /\ UNCHANGED done
     \/ /\ ~UuidFromString(cur)
        /\ Throw("Invalid string representation of Uuid")
        /\ UNCHANGED << sounds, runSounds, done >>
  /\ UNCHANGED << constVars, sem, msg, received, cur, item, inputFile, workDir,
                  tempDirExists, toUpload, runPuts, mp4boxCalls, ffmpegCalls,
                  codecFail, reported >>
  /\ UNCHANGED << noInput, kept >>

\* types.Uuid.fromString(message.userId) and createSound(...): the INSERT.
PvSound ==
  /\ pc = "pv_sound"
  /\ \/ /\ UuidFromString(cur)
        /\ sounds' = [sounds EXCEPT ![cur] = @ + 1]
        /\ runSounds' = runSounds + 1
        /\ pc' = "pv_finally"
        /\ done' = done \cup {"sound"}
        /\ UNCHANGED err
     \/ /\ UuidFromString(cur)
        /\ Throw("createSound failed")
        /\ UNCHANGED << sounds, runSounds, done >>
     \/ /\ ~UuidFromString(cur)
        /\ Throw("Invalid string representation of Uuid")
        /\ UNCHANGED << sounds, runSounds, done >>
  /\ UNCHANGED << constVars, sem, msg, received, cur, item, inputFile, workDir,
                  tempDirExists, toUpload, runPuts, mp4boxCalls, ffmpegCalls,
                  codecFail, reported >>
  /\ UNCHANGED << noInput, kept >>

\* try { fs.rmSync(tempDir, {recursive: true, force: true}) } catch {}: the
\* directory is removed; or, when it holds a file that cannot be removed, the
\* call throws at that file and the directory stays with it and with the
\* files the call had not reached, whichever they are.
RmSyncTempDir ==
  IF workDir \cap immutable = {}
  THEN /\ workDir' = {}
       /\ inputFile' = "absent"
       /\ tempDirExists' = [tempDirExists EXCEPT ![cur] = FALSE]
       /\ kept' = [kept EXCEPT ![cur] = NothingKept]
  ELSE \E left \in {l \in SUBSET workDir : workDir \cap immutable \subseteq l} :
         /\ workDir' = left
         /\ inputFile' = IF tempInputPath \in left THEN inputFile ELSE "absent"
         /\ kept' = [kept EXCEPT ![cur] =
                       [files |-> left,
                        inputFile |-> IF tempInputPath \in left THEN inputFile
                                                                ELSE "absent"]]
         /\ UNCHANGED tempDirExists

\* PvFinally with a catch that logs and does not rethrow.
PvFinallySwallows ==
  /\ pc = "pv_finally"
  /\ RmSyncTempDir
  /\ sem' = SemaphoreRelease(sem)
  /\ done' = done \cup {"teardown"}
  /\ pc' = "pm_delete"
  /\ UNCHANGED << constVars, msg, received, cur, item, toUpload, runPuts,
                  mp4boxCalls, err, sounds, runSounds,
                  ffmpegCalls, codecFail, reported, noInput >>

\* finally: the removal of tempDir, errors ignored; encodingSemaphore.release();
\* then the error caught at line 494 is rethrown, or processVideo returns.
PvFinally ==
  /\ pc = "pv_finally"
  /\ RmSyncTempDir
  /\ sem' = SemaphoreRelease(sem)
  /\ done' = done \cup {"teardown"}
  /\ pc' = IF err # "none" THEN "pm_catch" ELSE "pm_delete"
  /\ UNCHANGED << constVars, msg, received, cur, item, toUpload, runPuts,
                  mp4boxCalls, err, sounds, runSounds,
                  ffmpegCalls, codecFail, reported, noInput >>

Next ==
  \/ \E j \in Jobs : PmReceive(j)
  \/ PmReceiveError
  \/ PmBackoff
  \/ PmDelete
  \/ PmCatch
  \/ PvAcquire
  \/ PvMkdir
  \/ PvMkdirFail
  \/ PvGet
  \/ PvGetFail
  \/ \E i \in Items : ItemSpawn(i)
  \/ \E i \in Items : ItemWriteError(i)
  \/ \E i \in Items : ItemEnd(i)
  \/ \E i \in Items : ItemError(i)
  \/ \E i \in Items : ItemCodecError(i)
  \/ PvSettled
  \/ PvDash
  \/ PvHls
  \/ \E f \in toUpload : PvPut(f)
  \/ PvPutFail
  \/ PvThumbPut
  \/ PvSound
  \/ PvFinally

Spec == Init /\ [][Next]_vars

\* ---------------------------------------------------------------- part_002: the scanning worker
workerVars == << nodeEnv, maxConcurrency, manifests, useGpuEnv, sem, msg,
                 hasAudio, userId, immutable, received, pc, cur, item,
                 inputFile, workDir, tempDirExists, toUpload, runPuts,
                 mp4boxCalls, err, done, runSounds, ffmpegCalls, codecFail,
                 reported, noInput, kept, sounds, callerVars, up >>

\* The SQS worker is not running; every scanning process is at the top of
\* loop() and UPLOAD_DIR holds the files stored before the workers started.
InitScan ==
  /\ CallersOff
  /\ UploadOff
  /\ useGpuEnv = "unset"
  /\ nodeEnv = "development"
  /\ maxConcurrency = 0
  /\ manifests = "both"
  /\ sem = SemaphoreNew(getConfigMaxConcurrentEncodings(nodeEnv, maxConcurrency))
  /\ msg = [j \in Jobs |-> "deleted"]
  /\ hasAudio = [j \in Jobs |-> j % 2 = 1]
  /\ userId = [j \in Jobs |-> TRUE]
  /\ immutable = {}
  /\ received = 0
  /\ pc = "off"
  /\ cur = 0
  /\ item = [i \in Items |-> "idle"]
  /\ inputFile = "absent"
  /\ workDir = {}
  /\ tempDirExists = [j \in Jobs |-> FALSE]
  /\ toUpload = {}
  /\ runPuts = {}
  /\ mp4boxCalls = << >>
  /\ err = "none"
  /\ done = {}
  /\ runSounds = 0
  /\ ffmpegCalls = [i \in Items |-> 0]
  /\ codecFail = {}
  /\ reported = {}
  /\ noInput = {}
  /\ kept = [j \in Jobs |-> NothingKept]
  /\ sounds = [j \in Jobs |-> 0]
  /\ uploads \in SUBSET Files
  /\ public = [f \in Files |-> {}]
  /\ spc = [w \in Procs |-> "idle"]
  /\ sfiles = [w \in Procs |-> {}]
  /\ sfile = [w \in Procs |-> 0]
  /\ enc = [w \in Procs |-> [r \in ScanRungs |-> "idle"]]
  /\ orphans = EmptyBag
  /\ completed = [f \in Files |-> FALSE]

\* The extensions of the names under which files are posted ("" for none).
Extensions == {".mp4", ".MP4", ".mov", ""}

\* filename() of multer.diskStorage: path.extname(file.originalname) || ".mp4"
StoredExt(ext) == IF ext = "" THEN ".mp4" ELSE ext

toLowerCase(ext) == IF ext = ".MP4" THEN ".mp4" ELSE ext

\* POST /upload of the local server: multer stores the file of the request in
\* UPLOAD_DIR as <uuid><ext>, where the scanning processes find it when its
\* name, lower-cased, ends in .mp4.
LocalUpload(f, ext) ==
  /\ f \notin uploads
  /\ uploads' = IF toLowerCase(StoredExt(ext)) = ".mp4" THEN uploads \cup {f}
                                                       ELSE uploads
  /\ UNCHANGED << workerVars, public, spc, sfiles, sfile, enc, orphans,
                  completed >>

\* readdirSync order
NextFile(w) == CHOOSE f \in sfiles[w] : \A g \in sfiles[w] : f <= g

\* processUploadsOnce: files = readdirSync(UPLOAD_DIR).filter(.mp4)
ScanBegin(w) ==
  /\ spc[w] = "idle"
  /\ sfiles' = [sfiles EXCEPT ![w] = uploads]
  /\ spc' = [spc EXCEPT ![w] = "next"]
  /\ UNCHANGED << workerVars, uploads, public, sfile, enc, orphans, completed >>

\* if (fs.existsSync(path.join(workDir, "manifest.mpd"))) continue
ScanSkip(w) ==
  /\ spc[w] = "next"
  /\ sfiles[w] # {}
  /\ "manifest.mpd" \in public[NextFile(w)]
  /\ sfiles' = [sfiles EXCEPT ![w] = @ \ {NextFile(w)}]
  /\ UNCHANGED << workerVars, uploads, public, spc, sfile, enc, orphans,
                  completed >>

\* No manifest: mkdir, then encodeBaseline spawns one ffmpeg per rung before
\* it awaits Promise.all.
ScanProcess(w) ==
  /\ spc[w] = "next"
  /\ sfiles[w] # {}
  /\ "manifest.mpd" \notin public[NextFile(w)]
  /\ sfile' = [sfile EXCEPT ![w] = NextFile(w)]
  /\ sfiles' = [sfiles EXCEPT ![w] = @ \ {NextFile(w)}]
  /\ enc' = [enc EXCEPT ![w] = [r \in ScanRungs |-> "running"]]
  /\ spc' = [spc EXCEPT ![w] = "encode"]
  /\ UNCHANGED << workerVars, uploads, public, orphans, completed >>

\* fs.mkdirSync(workDir) throws, outside the try of the file: the exception
\* leaves processUploadsOnce, loop() logs it and sleeps.
ScanMkdirFail(w) ==
  /\ spc[w] = "next"
  /\ sfiles[w] # {}
  /\ "manifest.mpd" \notin public[NextFile(w)]
  /\ sfiles' = [sfiles EXCEPT ![w] = {}]
  /\ spc' = [spc EXCEPT ![w] = "sleep"]
  /\ UNCHANGED << workerVars, uploads, public, sfile, enc, orphans, completed >>

\* The for loop is over: loop() sleeps 4 s.
ScanDone(w) ==
  /\ spc[w] = "next"
  /\ sfiles[w] = {}
  /\ spc' = [spc EXCEPT ![w] = "sleep"]
  /\ UNCHANGED << workerVars, uploads, public, sfiles, sfile, enc, orphans,
                  completed >>

ScanSleep(w) ==
  /\ spc[w] = "sleep"
  /\ spc' = [spc EXCEPT ![w] = "idle"]
  /\ UNCHANGED << workerVars, uploads, public, sfiles, sfile, enc, orphans,
                  completed >>

\* The exit codes of a child process: 0, or one that is not 0.
ExitCodes == {0, 1}

\* The ffmpeg process of a rung of the run exits; with code 0 it has written
\* its output file. The "close" callback of runCmd runs in a later turn of the
\* event loop of the scanning process.
EncExit(w, r, code) ==
  /\ spc[w] = "encode"
  /\ enc[w][r] = "running"
  /\ enc' = [enc EXCEPT ![w][r] = IF code = 0 THEN "exited0" ELSE "exitedN"]
  /\ public' = IF code = 0
               THEN [public EXCEPT ![sfile[w]] = @ \cup {outFile(r)}]
               ELSE public
  /\ UNCHANGED << workerVars, uploads, spc, sfiles, sfile, orphans, completed >>

\* "close" with code 0: runCmd resolves for the rung; Promise.all resolves
\* with the last one and generateCmafAndManifests spawns MP4Box for
\* manifest.mpd.
EncEnd(w, r) ==
  /\ spc[w] = "encode"
  /\ enc[w][r] = "exited0"
  /\ enc' = [enc EXCEPT ![w][r] = "done"]
  /\ spc' = [spc EXCEPT ![w] =
       IF \A q \in ScanRungs \ {r} : enc[w][q] = "done" THEN "dash" ELSE @]
  /\ UNCHANGED << workerVars, uploads, public, sfiles, sfile, orphans,
                  completed >>

\* "close" with another code: runCmd rejects for the rung, Promise.all
\* rejects at once, the catch of processUploadsOnce logs and the loop goes on
\* to the next file, while the other ffmpeg processes of the run that have
\* not exited keep running.
EncFail(w, r) ==
  LET abandoned ==
        {<< w, sfile[w], q >> : q \in {x \in ScanRungs \ {r} : enc[w][x] = "running"}}
  IN /\ spc[w] = "encode"
     /\ enc[w][r] = "exitedN"
     /\ \A o \in abandoned : CopiesIn(o, orphans) < MaxOrphanCopies
     /\ orphans' = orphans (+) SetToBag(abandoned)
     /\ enc' = [enc EXCEPT ![w] = [q \in ScanRungs |-> "idle"]]
     /\ sfile' = [sfile EXCEPT ![w] = 0]
     /\ spc' = [spc EXCEPT ![w] = "next"]
     /\ UNCHANGED << workerVars, uploads, public, sfiles, completed >>

\* An abandoned ffmpeg process exits, with or without its output file.
OrphanEnd(o) ==
  /\ BagIn(o, orphans)
  /\ orphans' = orphans (-) SetToBag({o})
  /\ public' = [public EXCEPT ![o[2]] = @ \cup {outFile(o[3])}]
  /\ UNCHANGED << workerVars, uploads, spc, sfiles, sfile, enc, completed >>

OrphanFail(o) ==
  /\ BagIn(o, orphans)
  /\ orphans' = orphans (-) SetToBag({o})
  /\ UNCHANGED << workerVars, uploads, public, spc, sfiles, sfile, enc,
                  completed >>

\* The MP4Box process of the run exits: the one for manifest.mpd, or the one
\* for manifest.m3u8. With code 0 it has found every rendition file and
\* written its manifest and segments; it exits non-zero when it fails, in
\* particular when a rendition file is not there. The "close" callback of
\* runCmd runs in a later turn of the event loop.
Mp4boxExit(w, code) ==
  /\ spc[w] \in {"dash", "hls"}
  /\ code = 0 => ScanOutputs \subseteq public[sfile[w]]
  /\ public' = IF code # 0 THEN public
               ELSE [public EXCEPT ![sfile[w]] =
                       @ \cup (IF spc[w] = "dash" THEN dashFiles ELSE hlsFiles)]
  /\ spc' = [spc EXCEPT ![w] =
       IF @ = "dash" THEN (IF code = 0 THEN "dash0" ELSE "dashN")
                     ELSE (IF code = 0 THEN "hls0" ELSE "hlsN")]
  /\ UNCHANGED << workerVars, uploads, sfiles, sfile, enc, orphans, completed >>

\* generateCmafAndManifests, "close" of the MP4Box for manifest.mpd: with code
\* 0 MP4Box is spawned for manifest.m3u8, else runCmd rejects and the catch of
\* processUploadsOnce logs.
ScanDash(w) ==
  /\ spc[w] \in {"dash0", "dashN"}
  /\ IF spc[w] = "dash0"
     THEN /\ spc' = [spc EXCEPT ![w] = "hls"]
          /\ UNCHANGED << sfile, enc >>
     ELSE /\ spc' = [spc EXCEPT ![w] = "next"]
          /\ sfile' = [sfile EXCEPT ![w] = 0]
          /\ enc' = [enc EXCEPT ![w] = [q \in ScanRungs |-> "idle"]]
  /\ UNCHANGED << workerVars, uploads, public, sfiles, orphans, completed >>

\* "close" of the MP4Box for manifest.m3u8: with code 0 the progressive MP4s
\* are unlinked, each in a try whose catch only warns: the ones that are there
\* are removed or, when the unlink throws, stay; for the ones that are not
\* there the unlink throws. With another code runCmd rejects.
ScanHls(w) ==
  /\ spc[w] \in {"hls0", "hlsN"}
  /\ IF spc[w] = "hls0"
     THEN /\ \E failed \in SUBSET (ScanOutputs \cap public[sfile[w]]) :
               public' = [public EXCEPT ![sfile[w]] = @ \ (ScanOutputs \ failed)]
          /\ completed' = [completed EXCEPT ![sfile[w]] = TRUE]
     ELSE UNCHANGED << public, completed >>
  /\ spc' = [spc EXCEPT ![w] = "next"]
  /\ sfile' = [sfile EXCEPT ![w] = 0]
  /\ enc' = [enc EXCEPT ![w] = [q \in ScanRungs |-> "idle"]]
  /\ UNCHANGED << workerVars, uploads, sfiles, orphans >>

NextScan ==
  \/ \E f \in Files, ext \in Extensions : LocalUpload(f, ext)
  \/ \E w \in Procs : ScanBegin(w)
  \/ \E w \in Procs : ScanSkip(w)
  \/ \E w \in Procs : ScanProcess(w)
  \/ \E w \in Procs : ScanMkdirFail(w)
  \/ \E w \in Procs : ScanDone(w)
  \/ \E w \in Procs : ScanSleep(w)
  \/ \E w \in Procs, r \in ScanRungs, code \in ExitCodes : EncExit(w, r, code)
  \/ \E w \in Procs, r \in ScanRungs : EncEnd(w, r)
  \/ \E w \in Procs, r \in ScanRungs : EncFail(w, r)
  \/ \E o \in BagToSet(orphans) : OrphanEnd(o)
  \/ \E o \in BagToSet(orphans) : OrphanFail(o)
  \/ \E w \in Procs, code \in ExitCodes : Mp4boxExit(w, code)
  \/ \E w \in Procs : ScanDash(w)
  \/ \E w \in Procs : ScanHls(w)

SpecScan == InitScan /\ [][NextScan]_vars

\* ---------------------------------------------------------------- class Semaphore on its own
\* Several callers share one Semaphore; each calls acquire(), holds the permit
\* once acquire() has resolved, calls release() and starts again, any number
\* of times, or holds the permit for ever: nothing makes a holder release.
semOffVars == << nodeEnv, maxConcurrency, manifests, useGpuEnv, msg, hasAudio,
                 userId, immutable, received, pc, cur, item, inputFile,
                 workDir, tempDirExists, toUpload, runPuts, mp4boxCalls, err,
                 done, runSounds, ffmpegCalls, codecFail, reported, noInput,
                 kept, sounds, scanVars, up >>

InitSem ==
  /\ ScanOff
  /\ UploadOff
  /\ nodeEnv = "development"
  /\ useGpuEnv = "unset"
  /\ maxConcurrency \in 1..MaxConcurrencyEnv
  /\ manifests = "both"
  /\ sem = SemaphoreNew(getConfigMaxConcurrentEncodings(nodeEnv, maxConcurrency))
  /\ msg = [j \in Jobs |-> "deleted"]
  /\ hasAudio = [j \in Jobs |-> j % 2 = 1]
  /\ userId = [j \in Jobs |-> TRUE]
  /\ immutable = {}
  /\ received = 0
  /\ pc = "off"
  /\ cur = 0
  /\ item = [i \in Items |-> "idle"]
  /\ inputFile = "absent"
  /\ workDir = {}
  /\ tempDirExists = [j \in Jobs |-> FALSE]
  /\ toUpload = {}
  /\ runPuts = {}
  /\ mp4boxCalls = << >>
  /\ err = "none"
  /\ done = {}
  /\ runSounds = 0
  /\ ffmpegCalls = [i \in Items |-> 0]
  /\ codecFail = {}
  /\ reported = {}
  /\ noInput = {}
  /\ kept = [j \in Jobs |-> NothingKept]
  /\ sounds = [j \in Jobs |-> 0]
  /\ CallersOff

\* The callers whose resolve function is in the wait queue.
Queued(s) == {s.waitQueue[k] : k \in 1..Len(s.waitQueue)}

\* acquire(): the returned promise is resolved at once when a permit is free,
\* else its resolve function is pushed on waitQueue. The call is the
\* youngest of those whose permit has not been released.
SemAcquireCall(c) ==
  /\ sstate[c] = "idle"
  /\ sem' = SemaphoreAcquire(sem, c)
  /\ sstate' = [sstate EXCEPT ![c] =
       IF c \in Queued(SemaphoreAcquire(sem, c)) THEN "waiting" ELSE "holding"]
  /\ clock' = clock + 1
  /\ ticket' = [ticket EXCEPT ![c] = clock + 1]
  /\ UNCHANGED << semOffVars, wakes >>

\* release() by a holder: the resolve function shifted from waitQueue, if
\* any, is called and its caller resumes with the permit. The calls younger
\* than the one of the holder move up one rank.
SemReleaseCall(c) ==
  /\ sstate[c] = "holding"
  /\ sem' = SemaphoreRelease(sem)
  /\ sstate' = [d \in Callers |->
       IF d = c THEN "idle"
       ELSE IF d \in Queued(sem) \ Queued(SemaphoreRelease(sem)) THEN "holding"
       ELSE sstate[d]]
  /\ ticket' = [d \in Callers |->
       IF d = c THEN 0
       ELSE IF ticket[d] > ticket[c] THEN ticket[d] - 1
       ELSE ticket[d]]
  /\ clock' = clock - 1
  /\ wakes' = IF Queued(sem) # Queued(SemaphoreRelease(sem)) /\ wakes < MaxWakes
              THEN wakes + 1 ELSE wakes
  /\ UNCHANGED semOffVars

NextSem ==
  \/ \E c \in Callers : SemAcquireCall(c)
  \/ \E c \in Callers : SemReleaseCall(c)

SpecSem == InitSem /\ [][NextSem]_vars

\* ---------------------------------------------------------------- server.ts: POST /upload
uploadOffVars == << nodeEnv, maxConcurrency, manifests, useGpuEnv, sem, msg,
                    hasAudio, userId, immutable, received, pc, cur, item,
                    inputFile, workDir, tempDirExists, toUpload, runPuts,
                    mp4boxCalls, err, done, runSounds, ffmpegCalls, codecFail,
                    reported, noInput, kept, sounds, scanVars, callerVars >>

\* A request with one to MaxUploads files has arrived: req.files.map starts
\* the async function of every file, each up to its await of PutObject.
InitUpload ==
  /\ ScanOff
  /\ CallersOff
  /\ nodeEnv = "development"
  /\ useGpuEnv = "unset"
  /\ maxConcurrency = 0
  /\ manifests = "both"
  /\ sem = SemaphoreNew(getConfigMaxConcurrentEncodings(nodeEnv, maxConcurrency))
  /\ msg = [j \in Jobs |-> "deleted"]
  /\ hasAudio = [j \in Jobs |-> j % 2 = 1]
  /\ userId = [j \in Jobs |-> TRUE]
  /\ immutable = {}
  /\ received = 0
  /\ pc = "off"
  /\ cur = 0
  /\ item = [i \in Items |-> "idle"]
  /\ inputFile = "absent"
  /\ workDir = {}
  /\ tempDirExists = [j \in Jobs |-> FALSE]
  /\ toUpload = {}
  /\ runPuts = {}
  /\ mp4boxCalls = << >>
  /\ err = "none"
  /\ done = {}
  /\ runSounds = 0
  /\ ffmpegCalls = [i \in Items |-> 0]
  /\ codecFail = {}
  /\ reported = {}
  /\ noInput = {}
  /\ kept = [j \in Jobs |-> NothingKept]
  /\ sounds = [j \in Jobs |-> 0]
  /\ \E n \in 1..MaxUploads :
       up = [f \in UpFiles |->
               IF f <= n
               THEN [pc |-> "put", put |-> FALSE, sent |-> FALSE, status |-> "none"]
               ELSE [pc |-> "off", put |-> FALSE, sent |-> FALSE, status |-> "none"]]

\* UpPut with the PutObject promise not awaited: the handler goes on to build
\* and send the message while the put is still pending.
UpPutNotAwaited(f) ==
  /\ up[f].pc = "put"
  /\ up' = [up EXCEPT ![f].pc = "send"]
  /\ UNCHANGED uploadOffVars

\* await s3Client.send(new PutObjectCommand(...)): it resolves, or it throws
\* and the catch of the file's function unlinks the local file and returns
\* status "failed".
UpPut(f) ==
  /\ up[f].pc = "put"
  /\ \/ up' = [up EXCEPT ![f].put = TRUE, ![f].pc = "send"]
     \/ up' = [up EXCEPT ![f].status = "failed", ![f].pc = "done"]
  /\ UNCHANGED uploadOffVars

\* await sqsClient.send(new SendMessageCommand(...)), then unlinkSync of the
\* local file and return status "queued"; a throw of either goes to the catch.
UpSend(f) ==
  /\ up[f].pc = "send"
  /\ \/ up' = [up EXCEPT ![f].sent = TRUE, ![f].status = "queued", ![f].pc = "done"]
     \/ up' = [up EXCEPT ![f].sent = TRUE, ![f].status = "failed", ![f].pc = "done"]
     \/ up' = [up EXCEPT ![f].status = "failed", ![f].pc = "done"]
  /\ UNCHANGED uploadOffVars

\* Promise.all resolved: res.json({message, videos: results}).
UpRespond ==
  /\ \E f \in UpFiles : up[f].pc = "done"
  /\ \A f \in UpFiles : up[f].pc \in {"done", "off"}
  /\ up' = [f \in UpFiles |->
              IF up[f].pc = "done" THEN [up[f] EXCEPT !.pc = "responded"] ELSE up[f]]
  /\ UNCHANGED uploadOffVars

NextUpload ==
  \/ \E f \in UpFiles : UpPut(f)
  \/ \E f \in UpFiles : UpSend(f)
  \/ UpRespond

SpecUpload == InitUpload /\ [][NextUpload]_vars

\* ================================================================ claims
\* Required items of the current run that failed: the encode of an enabled
\* rung, or the audio extraction when the message asks for it.
requiredFailed ==
  \/ \E r \in Rungs(nodeEnv) : item[r] = "rejected"
  \/ cur # 0 /\ hasAudio[cur] /\ item["audio"] = "rejected"

rungsRunning == {r \in Rungs(nodeEnv) : item[r] = "running"}

\* C1: in a run of processVideo in which a required item has failed, MP4Box
\* has not been invoked, whichever items fail and in whatever order they settle.
C1_NoPackagingAfterFailedItem == requiredFailed => mp4boxCalls = << >>

\* C1: a run with MANIFESTS=both in which one rung failed and another
\* succeeded has ended in the catch of pollMessages.
C1_Witness ==
  /\ pc = "pm_catch"
  /\ err = "Some encodings failed"
  /\ manifests = "both"
  /\ item["720p"] = "rejected"
  /\ item["240p"] = "fulfilled"
  /\ mp4boxCalls = << >>

\* C2: the number of ffmpeg processes running rung encodes never exceeds
\* CONFIG.maxConcurrentEncodings.
C2_EncodersWithinCapacity ==
  Cardinality(rungsRunning) <= CONFIG_maxConcurrentEncodings

\* C3: no two scanning processes are processing the same file at once.
C3_SingleOwner ==
  \A v \in Procs, w \in Procs :
    (v # w /\ sfile[v] # 0) => sfile[v] # sfile[w]

\* C4: when no run of processVideo is in progress, every permit is free.
C4_PermitsRestored ==
  pc \in {"poll", "backoff"} => sem.permits = CONFIG_maxConcurrentEncodings

AllSteps == {"get", "fanout", "package", "upload", "thumbput", "sound", "teardown"}

C5_FailureSurfaces ==
  (cur # 0 /\ err # "none") =>
    (msg[cur] = "inflight" /\ pc \in {"pv_finally", "pm_catch"})

C5_AckStep ==
  \A j \in Jobs :
    (msg[j] # "deleted" /\ msg'[j] = "deleted") =>
      /\ pc = "pm_delete"
      /\ cur = j
      /\ AllSteps \subseteq done
      /\ err = "none"

\* C5: DeleteMessage is issued for a message only when its run has completed
\* every step without error and has torn down; a run that threw leads to the
\* catch of pollMessages with the message still undeleted.
C5_AckOnlyAfterSuccess == [](C5_FailureSurfaces) /\ [][C5_AckStep]_vars

\* C5: a message was deleted after a run that created its record.
C5_Witness ==
  /\ pc = "poll"
  /\ \E j \in Jobs : msg[j] = "deleted" /\ sounds[j] = 1

\* C6: once a run has ended, in the catch of pollMessages or before
\* DeleteMessage, and between runs, no workspace directory exists.
C6_WorkspaceGone ==
  pc \in {"pm_catch", "pm_delete", "poll", "backoff"} =>
    /\ \A j \in Jobs : ~tempDirExists[j]
    /\ workDir = {}
    /\ inputFile = "absent"

\* C7: no encoder of a run is still running once the driver has left that
\* run's fan-out.
C7_DriverResumesAfterAllSettled == orphans = EmptyBag

FanoutErrors ==
  {"Thumbnail generation failed", "Audio extraction failed", "Some encodings failed"}

Judged == "fanout" \in done \/ err \in FanoutErrors

\* C8 as stated: the fan-out is judged failed exactly when an enabled rung, or
\* the requested audio extraction, failed.
C8_FailedIffRequiredFailed ==
  Judged => ((err \in FanoutErrors) <=> requiredFailed)

\* C8 as amended: the fan-out is judged failed exactly when the thumbnail
\* extraction, an enabled rung, or the requested audio extraction failed; an
\* audio extraction that was not requested is never started.
C8_FailedIffThumbnailOrRequiredFailed ==
  /\ Judged =>
       ((err \in FanoutErrors) <=> (requiredFailed \/ item["thumbnail"] = "rejected"))
  /\ (cur # 0 /\ ~hasAudio[cur]) => item["audio"] \in {"idle", "null"}

\* C8: the thumbnail alone failed and the run was judged failed.
C8_Witness ==
  /\ err = "Thumbnail generation failed"
  /\ cur # 0
  /\ ~hasAudio[cur]
  /\ \A r \in Rungs(nodeEnv) : item[r] = "fulfilled"

\* C9: a file's output directory holds something, with no run on that file in
\* progress, only if a run completed the whole pipeline for it.
C9_NothingLeftAfterFailedRun ==
  \A f \in Files :
    ( /\ public[f] # {}
      /\ \A w \in Procs : sfile[w] # f
      /\ \A o \in BagToSet(orphans) : o[2] # f ) => completed[f]

\* C10: a run creates one record when it returns normally and none when it
\* throws, and the record is created after every file of the workspace and the
\* thumbnail have been put.
C10_OneRecordIffSuccess ==
  /\ runSounds <= 1
  /\ pc = "pm_delete" => runSounds = 1
  /\ err # "none" => runSounds = 0
  /\ runSounds = 1 =>
       /\ {"upload", "thumbput"} \subseteq done
       /\ toUpload = {}
       /\ workDir \subseteq runPuts
       /\ "thumbnail.jpg" \in runPuts

\* C10: a run has returned normally with its record and its manifest uploaded.
C10_Witness ==
  /\ pc = "pm_delete"
  /\ runSounds = 1
  /\ "manifest.mpd" \in runPuts

\* Positions of processVideo between the grant of the permit and its release.
HoldingPositions ==
  {"pv_mkdir", "pv_get", "pv_fanout", "pv_dash", "pv_hls", "pv_upload",
   "pv_thumbput", "pv_sound", "pv_finally"}

\* C11: the permits granted and not released, the capacity less the free
\* count, are between 0 and the capacity; a run past acquire() holds one of
\* them, and a caller is suspended only when none is free.
C11_GrantedWithinCapacity ==
  /\ sem.permits >= 0
  /\ sem.permits <= CONFIG_maxConcurrentEncodings
  /\ pc \in HoldingPositions => sem.permits < CONFIG_maxConcurrentEncodings
  /\ Len(sem.waitQueue) > 0 => sem.permits = 0

\* C11: three rungs are being encoded under a capacity of one, the only
\* permit being held by the run.
C11_Witness ==
  /\ CONFIG_maxConcurrentEncodings = 1
  /\ Cardinality(rungsRunning) = 3
  /\ sem.permits = 0
  /\ pc = "pv_fanout"

Waiting == {c \in Callers : sstate[c] = "waiting"}

C12_ReleaseStep ==
  (\E c \in Callers : sstate[c] = "holding" /\ sstate'[c] = "idle") =>
    IF Waiting # {}
    THEN /\ sem'.permits = sem.permits
         /\ \E w \in Waiting :
              /\ \A v \in Waiting : ticket[w] <= ticket[v]
              /\ sstate'[w] = "holding"
              /\ \A v \in Waiting \ {w} : sstate'[v] = "waiting"
    ELSE sem'.permits = sem.permits + 1

\* C12: a release() while callers are suspended resumes the one whose
\* acquire() call is the oldest, leaves every other one suspended and leaves
\* the free count as it is; with no caller suspended it adds one to the free
\* count.
C12_ReleaseWakesLongestWaiting == [][C12_ReleaseStep]_vars

\* C12: two suspended callers have been resumed, and another is suspended
\* behind a caller that was resumed.
C12_Witness ==
  /\ wakes >= 2
  /\ Waiting # {}
  /\ \E c \in Callers : sstate[c] = "holding"

\* The fan-out of the current run has been launched and has settled.
FanoutSettled == "get" \in done /\ pc # "pv_fanout"

\* C13: once the fan-out has settled, ffmpeg has been started exactly once for
\* every enabled rung and never for a rung that is not enabled.
C13_OneEncoderPerEnabledRung ==
  FanoutSettled =>
    \A r \in RungNames :
      ffmpegCalls[r] = (IF r \in Rungs(nodeEnv) THEN 1 ELSE 0)

\* The manifests MANIFESTS asks for, in the order they are generated.
RequestedManifests ==
  IF manifests = "both" THEN << "manifest.mpd", "manifest.m3u8" >>
  ELSE IF manifests = "dash" THEN << "manifest.mpd" >>
  ELSE IF manifests = "hls" THEN << "manifest.m3u8" >>
  ELSE << >>

RenditionRefs ==
  {<< outFile(r), k >> : r \in Rungs(nodeEnv), k \in {"video", "audio"}}

RunEnded == pc \in {"pm_catch", "pm_delete"}

\* C14 as stated: a run whose items all succeeded has, when it ends, invoked
\* MP4Box once for each requested manifest, each time with every rendition as
\* a video and as an audio reference.
C14_OncePerRequestedFormat ==
  ("fanout" \in done /\ RunEnded) =>
    /\ Len(mp4boxCalls) = Len(RequestedManifests)
    /\ \A k \in 1..Len(mp4boxCalls) :
         /\ mp4boxCalls[k].out = RequestedManifests[k]
         /\ mp4boxCalls[k].refs = RenditionRefs

\* C14 as amended: MP4Box is invoked only after every item succeeded, at most
\* once for each requested manifest and in the order DASH, HLS, each time with
\* every rendition as a video and as an audio reference; the run has invoked it
\* for every requested manifest unless an invocation failed, and a failed
\* invocation is the last one of the run.
C14_OncePerRequestedFormatUnlessFailed ==
  /\ mp4boxCalls # << >> => "fanout" \in done
  /\ Len(mp4boxCalls) <= Len(RequestedManifests)
  /\ \A k \in 1..Len(mp4boxCalls) :
       /\ mp4boxCalls[k].out = RequestedManifests[k]
       /\ mp4boxCalls[k].refs = RenditionRefs
  /\ "package" \in done => Len(mp4boxCalls) = Len(RequestedManifests)
  /\ ("fanout" \in done /\ RunEnded /\ "package" \notin done) =>
       (err = "MP4Box exited with code 1" /\ mp4boxCalls # << >>)

\* C14: a run with three renditions and MANIFESTS=both has returned normally
\* after two MP4Box invocations.
C14_Witness ==
  /\ pc = "pm_delete"
  /\ manifests = "both"
  /\ Cardinality(Rungs(nodeEnv)) = 3
  /\ Len(mp4boxCalls) = 2
  /\ err = "none"

\* C15: a run for a message whose earlier run completed, manifests uploaded,
\* starts no ffmpeg, no MP4Box and puts nothing.
C15_CompletedJobIsSkipped ==
  \A j \in Jobs :
    (cur = j /\ manifests # "none" /\ sounds[j] > runSounds) =>
      /\ \A i \in Items : ffmpegCalls[i] = 0
      /\ mp4boxCalls = << >>
      /\ runPuts = {}

\* C16: while an item of the fan-out is still writing or reading _input.mp4,
\* the file is in the workspace, and it is complete while an ffmpeg process
\* reads it.
C16_InputStableDuringFanout ==
  /\ (\E i \in Items : item[i] \in {"writing", "running"}) => inputFile # "absent"
  /\ (\E i \in Items : item[i] = "running") => inputFile = "complete"

Phases == << "get", "fanout", "package", "upload", "thumbput", "sound" >>

C17_PhaseOrder ==
  /\ \A k \in 1..Len(Phases) :
       Phases[k] \in done => \A m \in 1..k : Phases[m] \in done
  /\ (\E i \in Items : ffmpegCalls[i] > 0 \/ item[i] # "idle") => "get" \in done
  /\ mp4boxCalls # << >> => "fanout" \in done
  /\ runPuts # {} => "package" \in done
  /\ runSounds > 0 => {"upload", "thumbput"} \subseteq done
  /\ "teardown" \in done =>
       (err # "none" \/ \A k \in 1..Len(Phases) : Phases[k] \in done)
  /\ pc = "pm_delete" => "teardown" \in done
  /\ (err # "none" /\ err # "mkdir failed") =>
       (pc = "pv_finally" \/ (pc = "pm_catch" /\ "teardown" \in done))

C17_FailedStep ==
  (err # "none" /\ cur' = cur) =>
    /\ done' \subseteq done \cup {"teardown"}
    /\ UNCHANGED << ffmpegCalls, mp4boxCalls, runPuts, runSounds, sounds, msg >>

\* C17: the steps of a run complete in the order GetObject, fan-out,
\* packaging, uploads, thumbnail put, record, teardown, DeleteMessage, none
\* starting before the one before it completed; once a step has thrown, only
\* the teardown runs and the message is not deleted.
C17_PhasesInOrder == [](C17_PhaseOrder) /\ [][C17_FailedStep]_vars

\* C17: a run failed in its uploads, after packaging, and has torn down.
C17_Witness ==
  /\ pc = "pm_catch"
  /\ err = "PutObject failed"
  /\ "package" \in done
  /\ "upload" \notin done
  /\ "teardown" \in done

\* C18: no message gets a second record.
C18_NoSecondRecord == \A j \in Jobs : sounds[j] <= 1

\* C20: with CONFIG.useGPU, no rung encode is rejected because the hardware
\* codec could not be used.
C20_FallsBackToSoftware ==
  \A r \in Rungs(nodeEnv) :
    (CONFIG_useGPU /\ item[r] = "rejected") => r \notin codecFail

RungFiles == {outFile(r) : r \in RungNames}

\* The files MP4Box leaves in the workspace for the requested manifests.
RequestedPackageFiles ==
  (IF manifests \in {"both", "dash"} THEN {"manifest.mpd", "dash.m4s"} ELSE {})
    \cup (IF manifests \in {"both", "hls"} THEN {"manifest.m3u8", "hls.m4s"} ELSE {})

C21_NoRungFileAfterPackaging ==
  ("package" \in done /\ "teardown" \notin done) =>
    /\ workDir \cap RungFiles = {}
    /\ RequestedPackageFiles \subseteq workDir

C21_RemovableGoneAfterPackaging ==
  ("package" \in done /\ "teardown" \notin done) =>
    /\ workDir \cap RungFiles \subseteq immutable
    /\ RequestedPackageFiles \subseteq workDir

C21_AllKeptOnFailure ==
  (pc = "pv_finally" /\ err = "MP4Box exited with code 1") =>
    {outFile(r) : r \in Rungs(nodeEnv)} \subseteq workDir

C21_UnlinkStep ==
  (cur' = cur /\ \E f \in RungFiles : f \in workDir /\ f \notin workDir') =>
    \/ pc = "pv_finally"
    \/ /\ pc = "pv_hls"
       /\ pc' = "pv_upload"
       /\ err' = "none"
       /\ Len(mp4boxCalls') = Len(RequestedManifests)

\* C21 as stated: generateCmafAndManifest removes a rung file from the
\* workspace only in the step that ends it, after an MP4Box invocation for
\* every requested manifest and no error; after it the workspace has the
\* requested manifests and segments and no rung file; when MP4Box failed every
\* rung file is still in the workspace when the teardown starts.
C21_RungFilesDeletedOnlyOnSuccess ==
  /\ [](C21_NoRungFileAfterPackaging)
  /\ [](C21_AllKeptOnFailure)
  /\ [][C21_UnlinkStep]_vars

\* C21 as amended: the same, except that after a successful packaging the
\* workspace may still hold the rung files whose unlink threw, the error
\* being ignored: it holds no rung file that can be removed.
C21_RungFilesDeletedUnlessUnremovable ==
  /\ [](C21_RemovableGoneAfterPackaging)
  /\ [](C21_AllKeptOnFailure)
  /\ [][C21_UnlinkStep]_vars

\* C21: the HLS invocation of a run with MANIFESTS=both failed after the DASH
\* one succeeded, and the run is about to tear down.
C21_Witness ==
  /\ pc = "pv_finally"
  /\ manifests = "both"
  /\ err = "MP4Box exited with code 1"
  /\ Len(mp4boxCalls) = 2
  /\ "manifest.mpd" \in workDir
  /\ "240p.mp4" \in workDir

\* C22: when the encodes are judged failed, the pairs logged are the failed
\* rungs, each with its own reason.
C22_DiagnosticsNameFailedRungs ==
  err = "Some encodings failed" =>
    reported = {<< r, reason(r) >> : r \in failedEncodings}

C23_EveryPermitReleased ==
  \A c \in Callers : (sstate[c] = "holding") ~> (sstate[c] # "holding")

\* C23: if every granted permit is eventually released, a caller suspended in
\* acquire() is eventually granted a permit, however many times the other
\* callers call acquire() after it.
C23_WaitersEventuallyGranted ==
  C23_EveryPermitReleased =>
    \A c \in Callers : (sstate[c] = "waiting") ~> (sstate[c] = "holding")

\* C23: a caller that called acquire() after a waiter was resumed is suspended
\* behind the permit that waiter now holds.
C23_Witness ==
  /\ wakes >= 1
  /\ sem.permits = 0
  /\ \E c \in Callers, d \in Callers :
       /\ sstate[c] = "holding"
       /\ sstate[d] = "waiting"
       /\ ticket[d] > ticket[c]
       /\ ticket[d] = clock

\* C24: the loop of pollMessages can always take a further step.
C24_LoopNeverStalls == ENABLED Next

\* C25: at most one permit is outstanding and no call of acquire() is
\* suspended.
C25_AtMostOnePermitOutstanding ==
  /\ sem.permits >= CONFIG_maxConcurrentEncodings - 1
  /\ pc # "pv_wait"
  /\ sem.waitQueue = << >>

Holding == {c \in Callers : sstate[c] = "holding"}

\* C26: the free count of the Semaphore is between 0 and its capacity, the
\* capacity less the permits held; the callers in the wait queue are the
\* suspended ones, and while there is one the free count is 0.
C26_FreeCountInRange ==
  /\ sem.permits \in 0..CONFIG_maxConcurrentEncodings
  /\ sem.permits + Cardinality(Holding) = CONFIG_maxConcurrentEncodings
  /\ Queued(sem) = Waiting
  /\ Waiting # {} => sem.permits = 0

\* C26: every permit of a Semaphore of two is held and a caller is suspended.
C26_Witness ==
  /\ CONFIG_maxConcurrentEncodings = 2
  /\ Cardinality(Holding) = 2
  /\ Cardinality(Waiting) = 1
  /\ sem.permits = 0

\* C27: the keys stored in the record of a run name objects the run has put.
C27_RecordKeysWerePut == runSounds = 1 => soundRecordKeys \subseteq runPuts

\* C28: a run that returned normally has put a manifest or a rendition file.
C28_PlayableArtifactUploaded ==
  pc = "pm_delete" =>
    runPuts \cap ({"manifest.mpd", "manifest.m3u8"} \cup RungFiles) # {}

\* C29: a file that no run is working on is skipped by a scan only if a run
\* completed the whole pipeline for it.
C29_SkippedOnlyIfCompleted ==
  \A w \in Procs :
    ( /\ spc[w] = "next"
      /\ sfiles[w] # {}
      /\ "manifest.mpd" \in public[NextFile(w)]
      /\ \A v \in Procs : sfile[v] # NextFile(w)
      /\ \A o \in BagToSet(orphans) : o[2] # NextFile(w) ) => completed[NextFile(w)]

\* C30: a message has been sent for a file only if its source object has been
\* put; a file whose put failed has no message and is reported as failed, and
\* a file reported as queued has both.
C30_MessageOnlyAfterPut ==
  \A f \in UpFiles :
    /\ up[f].sent => up[f].put
    /\ (up[f].pc \in {"done", "responded"} /\ ~up[f].put) =>
         (~up[f].sent /\ up[f].status = "failed")
    /\ up[f].status = "queued" => (up[f].put /\ up[f].sent)

\* C30: the response of a request of two files has been sent, one file
\* queued and the other failed in its put.
C30_Witness ==
  /\ up[1].pc = "responded"
  /\ up[1].status = "failed"
  /\ ~up[1].put
  /\ ~up[1].sent
  /\ up[2].pc = "responded"
  /\ up[2].status = "queued"

\* C31: a job enqueued by the upload endpoint whose fetch, encodes, packaging
\* and uploads all succeed is acknowledged: the descriptor the endpoint builds
\* carries every field the worker needs, so its run never fails for want of
\* one, and once its uploads are done only the store itself can fail it.
FromUploadEndpoint(j) ==
  /\ hasAudio[j] = UploadEndpointMessage.hasAudio
  /\ userId[j] = UploadEndpointMessage.userId

C31_EndpointJobNeverLacksAField ==
  (cur # 0 /\ FromUploadEndpoint(cur) /\ "thumbput" \in done)
    => err \in {"none", "createSound failed"}

\* C32: maxConcurrentEncodings is a positive integer for every NODE_ENV and
\* MAX_CONCURRENCY, and is MAX_CONCURRENCY whenever that parses to a positive
\* integer.
C32_PositiveAndOverridable ==
  /\ CONFIG_maxConcurrentEncodings \in Nat \ {0}
  /\ maxConcurrency > 0 => CONFIG_maxConcurrentEncodings = maxConcurrency

====
